---- MODULE Spec2Model ----
(***************************************************************************)
(* Model of zipline_extensions/data/bundles/history.py: the minute-bar     *)
(* ingestion run of MinutelyHistoryIngester.  The main thread runs         *)
(* ingest -> _get_securities -> _write_bars (which starts the worker       *)
(* thread, runs the producer loop _enqueue_prices, puts the termination    *)
(* signal and joins) -> _write_assets -> adjustment_writer.write.  The     *)
(* worker thread runs _consume_prices.  The two threads share              *)
(* ingestion_queue, a queue.Queue(maxsize=1).                              *)
(*                                                                         *)
(* The collaborators (history service, bar writers) are the environment:   *)
(* each call to them returns or raises, chosen nondeterministically.  A    *)
(* price series is identified by the conid it belongs to.                  *)
(***************************************************************************)
EXTENDS Integers, Sequences, FiniteSets, TLC

\* Number of securities returned by the securities master (model bound).
NumSecurities == 3

\* Number of distinct Symbol values the securities may carry (model bound).
NumSymbols == 2

\* queue.Queue(maxsize=1)
maxsize == 1

Conids == 1..NumSecurities

\* The termination signal placed on the queue (Python None).
None == 0

\* Outcomes of download_history_file for one conid: the file is written,
\* or requests.HTTPError is raised with one of two kinds of message.
NoHistoryMsg == "no history matches the query parameters"
OtherMsg == "server error"
HTTPErrorMsgs == {NoHistoryMsg, OtherMsg}

\* Attributes assigned by _BaseHistoryIngester.__init__ and
\* MinutelyHistoryIngester.__init__ (and nowhere else in the class).
InstanceAttributes ==
    {"code", "start_date", "end_date", "universes", "conids",
     "exclude_universes", "exclude_conids", "securities", "min_dates",
     "max_dates", "ingestion_queue", "ingestion_worker",
     "conids_with_errors"}

VARIABLES
    Symbol,             \* securities master: conid -> Symbol (as a rank)
    securities,         \* self.securities: conids in DataFrame row order
    min_dates,          \* keys of self.min_dates
    max_dates,          \* keys of self.max_dates
    ingestion_queue,    \* self.ingestion_queue, oldest item first
    conids_with_errors, \* self.conids_with_errors
    main_pc,            \* position of the main thread
    idx,                \* position of the iterrows() loop in _enqueue_prices
    exc,                \* exception that left ingest(), "none" if none
    worker_pc,          \* position of the worker thread (ingestion_worker)
    cur,                \* conid the worker is processing (None if none)
    fetched,            \* conid -> outcome of its download_history_file call
    pushed,             \* conids whose put() returned, in order
    dequeued,           \* conids the worker got from the queue, in order
    write_sid_calls,    \* calls of minute_bar_writer.write_sid: <<conid, ok>>
    daily_write_calls,  \* calls of daily_bar_writer.write: <<conid, ok>>
    asset_db_calls,     \* calls of asset_db_writer.write: set of conids each
    adjustment_calls,   \* number of calls of adjustment_writer.write
    touched,            \* attributes of self used: <<thread, name, alive>>
    \* one minute series followed through producer, worker and asset writer
    all_minutes,        \* calendar.all_minutes
    file_index,         \* Date column of the history file downloaded
    series_pc,          \* how far the series has got
    prices_index,       \* prices.index
    min_date,           \* self.min_dates[conid] (None if not set)
    max_date,           \* self.max_dates[conid] (None if not set)
    write_sid_index,    \* index of the frame minute_bar_writer.write_sid stored
    asset_row,          \* the conid's row passed to asset_db_writer.write
    \* make_ingest_func
    mk_args,            \* the universes and conids arguments
    db_config,          \* what get_db_config(code) returns
    mk_pc,              \* "idle", "called", "returned" or "raised"
    ingester,           \* the ingester built: class, universes, conids
    remote_calls,       \* calls made to remote services, in order
    \* DailyHistoryIngester: re-indexing and filling of the daily panel
    sessions,           \* the calendar's sessions in the writer's range
    panel,              \* the panel passed in: major axis and rows
    daily_pc,           \* "idle", "loaded", "reindexed" or "filled"
    out_panel,          \* the panel returned
    printed,            \* messages printed
    \* _write_assets: the futures passed to asset_db_writer.write
    master,             \* rows of self.securities after the join
    assets_pc,          \* "idle", "joined" or "written"
    futures,            \* the futures frame written: one row per FUT row
    \* fillna_panel on a panel of several items
    items_panel,        \* the panel passed in: major axis, rows of each item
    items_pc,           \* "idle", "loaded" or "filled"
    items_out,          \* the panel returned
    \* realtime.py: the process-wide binding and the calls made on it
    CODE,               \* RealtimeDatabase.CODE: <<>> is None, <<c>> is c
    FIELDS,             \* RealtimeDatabase.FIELDS: set of <<key, value>>
    rt_call,            \* the last call: function, arguments, outcome
    rt_set,             \* the last set_realtime_db call, if any: <<call>>
    rt_count            \* number of calls made so far

runVars == <<Symbol, securities, min_dates, max_dates, ingestion_queue,
             conids_with_errors, main_pc, idx, exc, worker_pc, cur, fetched,
             pushed, dequeued, write_sid_calls, daily_write_calls,
             asset_db_calls, adjustment_calls, touched>>

seriesVars == <<all_minutes, file_index, series_pc, prices_index, min_date, max_date,
                write_sid_index, asset_row>>

configVars == <<mk_args, db_config, mk_pc, ingester, remote_calls>>

dailyVars == <<sessions, panel, daily_pc, out_panel, printed>>

assetVars == <<master, assets_pc, futures>>

itemsVars == <<items_panel, items_pc, items_out>>

realtimeVars == <<CODE, FIELDS, rt_call, rt_set, rt_count>>

vars == <<runVars, seriesVars, configVars, dailyVars, assetVars, itemsVars,
          realtimeVars>>

\* What the steps of the ingestion run leave alone.
nonRunVars == <<seriesVars, configVars, dailyVars, assetVars,
                itemsVars, realtimeVars>>

\* What the steps on one series leave alone.
nonSeriesVars == <<runVars, configVars, dailyVars, assetVars,
                   itemsVars, realtimeVars>>

\* What make_ingest_func leaves alone.
nonConfigVars == <<runVars, seriesVars, dailyVars, assetVars,
                   itemsVars, realtimeVars>>

\* What the steps on the daily panel leave alone.
nonDailyVars == <<runVars, seriesVars, configVars, assetVars,
                  itemsVars, realtimeVars>>

\* What the derivation of the futures' symbols leaves alone.
nonAssetVars == <<runVars, seriesVars, configVars, dailyVars,
                  itemsVars, realtimeVars>>

\* What fillna_panel on a panel of several items leaves alone.
nonItemsVars == <<runVars, seriesVars, configVars, dailyVars, assetVars,
                  realtimeVars>>

\* What the calls on the realtime binding leave alone.
nonRealtimeVars == <<runVars, seriesVars, configVars, dailyVars, assetVars,
                     itemsVars>>

mainVars == <<securities, min_dates, max_dates, main_pc, idx, exc, fetched,
              pushed, asset_db_calls, adjustment_calls>>

workerVars == <<conids_with_errors, worker_pc, cur, dequeued,
                write_sid_calls, daily_write_calls>>

----------------------------------------------------------------------------
\* Helpers

Range(s) == {s[i] : i \in 1..Len(s)}

\* All orders in which the rows of the securities master can come.
RowOrders == {s \in [1..NumSecurities -> Conids] :
                 \A i, j \in 1..NumSecurities : i # j => s[i] # s[j]}

\* DataFrame.sort_values(by="Symbol"): s is a result of the sort when its
\* rows are in non-decreasing Symbol order (rows with equal Symbol come in
\* an order the sort does not fix).
SortValues_Unsorted(s, sym) == TRUE
SortValues(s, sym) ==
    \A i, j \in 1..Len(s) : i < j => sym[s[i]] <= sym[s[j]]

\* The row the iterrows() loop visits at position i.
IterRow_Reversed(secs, i) == secs[Len(secs) + 1 - i]
IterRow(secs, i) == secs[i]

\* except requests.HTTPError: "continue" on the no-history message,
\* otherwise re-raise.
OnHTTPError_AlwaysRaise(msg) == "raise"
OnHTTPError(msg) == IF msg = NoHistoryMsg THEN "continue" ELSE "raise"

\* queue.Queue: put() cannot proceed while the queue holds maxsize items.
Full_Never(q) == FALSE
Full(q) == Len(q) >= maxsize

\* queue.Queue.put appends on the right; get() pops from the left.
QueuePut(q, item) == Append(q, item)
QueueGetItem(q) == Head(q)
QueueAfterGet_Keep(q) == q
QueueAfterGet(q) == Tail(q)

\* except Exception in _consume_prices: self.conids_with_errors.add(conid)
OnWriteError_Forget(errors, conid) == errors
OnWriteError_Reset(errors, conid) == {conid}
OnWriteError(errors, conid) == errors \cup {conid}

\* "if security is None: break" in _consume_prices
IsTerminationSignal_Any(item) == TRUE
IsTerminationSignal(item) == item = None

\* "if not self.max_dates" in _write_bars
NoMaxDates_Never(dates) == FALSE
NoMaxDates(dates) == dates = {}

----------------------------------------------------------------------------
\* No series is being followed.
SeriesIdle ==
    /\ all_minutes = {}
    /\ file_index = <<>>
    /\ series_pc = "idle"
    /\ prices_index = <<>>
    /\ min_date = None
    /\ max_date = None
    /\ write_sid_index = <<>>
    /\ asset_row = <<None, None, None>>

\* A Python argument that is None or a list: None is not given.
PyNone == [given |-> FALSE, items |-> {}]
PyList(S) == [given |-> TRUE, items |-> S]

\* make_ingest_func has not been called.
ConfigIdle ==
    /\ mk_args = [universes |-> PyNone, conids |-> PyNone]
    /\ db_config = [bar_size |-> "1 min", universes |-> PyNone]
    /\ mk_pc = "idle"
    /\ ingester = [cls |-> "none", universes |-> PyNone, conids |-> PyNone]
    /\ remote_calls = <<>>

\* A panel without rows.
EmptyPanel == [index |-> <<>>, rows |-> <<>>]

\* No daily panel is being processed.
DailyIdle ==
    /\ sessions = {}
    /\ panel = EmptyPanel
    /\ daily_pc = "idle"
    /\ out_panel = EmptyPanel
    /\ printed = <<>>

\* _write_assets is not under way.
AssetsIdle ==
    /\ master = <<>>
    /\ assets_pc = "idle"
    /\ futures = <<>>

\* The items of the panel of the module's test (test_fillna_panel).
PanelItems == {"symbol1", "symbol2"}

\* No panel of several items is being filled.
ItemsIdle ==
    /\ items_panel = [index |-> <<>>, items |-> [a \in PanelItems |-> <<>>]]
    /\ items_pc = "idle"
    /\ items_out = [index |-> <<>>, items |-> [a \in PanelItems |-> <<>>]]

\* The call record before any call.
NoCall == [op |-> "none", code |-> "", fields |-> {}, field |-> "",
           outcome |-> "none", value |-> ""]

\* RealtimeDatabase as the class statement leaves it (CODE = None,
\* FIELDS = {}), no call made.
RealtimeIdle ==
    /\ CODE = <<>>
    /\ FIELDS = {}
    /\ rt_call = NoCall
    /\ rt_set = <<>>
    /\ rt_count = 0

\* The Symbol column as ranks: the rank of a security is the position of
\* its Symbol among the distinct Symbols of the master, so the ranks in
\* use are 1..k for some k.
SymbolRanks ==
    {f \in [Conids -> 1..NumSymbols] :
        \E k \in 1..NumSymbols : {f[c] : c \in Conids} = 1..k}

\* State after MinutelyHistoryIngester.__init__; ingest() not yet called.
Init ==
    /\ Symbol \in SymbolRanks
    /\ securities = <<>>
    /\ min_dates = {}
    /\ max_dates = {}
    /\ ingestion_queue = <<>>
    /\ conids_with_errors = {}
    /\ main_pc = "ingest"
    /\ idx = 1
    /\ exc = "none"
    /\ worker_pc = "unstarted"
    /\ cur = None
    /\ fetched = [c \in Conids |-> "none"]
    /\ pushed = <<>>
    /\ dequeued = <<>>
    /\ write_sid_calls = <<>>
    /\ daily_write_calls = <<>>
    /\ asset_db_calls = <<>>
    /\ adjustment_calls = 0
    /\ touched = {}
    /\ SeriesIdle
    /\ ConfigIdle
    /\ DailyIdle
    /\ AssetsIdle
    /\ ItemsIdle
    /\ RealtimeIdle

----------------------------------------------------------------------------
\* The attributes of the ingester (self.<name>) that each step reads or
\* writes, among those assigned or mutated after __init__; touched records
\* them with the thread that used them and whether the worker thread was
\* alive (started and not yet ended) at that moment.

WorkerAlive == worker_pc \notin {"unstarted", "done", "crashed"}

Touch(thread, attrs) ==
    touched' = touched \cup {<<thread, a, WorkerAlive>> : a \in attrs}

\* _get_securities
GetSecuritiesAttrs == {"securities"}

\* _write_bars up to ingestion_worker.start()
StartWorkerAttrs == {"min_dates", "max_dates", "ingestion_worker"}

\* _enqueue_prices: the loop header and the download
FetchAttrs == {"securities"}

\* _enqueue_prices: min_dates[conid] = ..., max_dates[conid] = ...
RecordDatesAttrs == {"min_dates", "max_dates"}

\* ingestion_queue.put
PutAttrs == {"ingestion_queue"}

\* except queue.Full: if self.worker_exception
PutTimeoutAttrs == {"ingestion_queue", "worker_exception"}

\* _write_bars after the join has returned
JoinAttrs == {"ingestion_worker", "conids_with_errors", "max_dates"}

\* _write_bars: the conversion of the dicts to Series
ConvertDatesAttrs == {"max_dates", "min_dates"}

\* _write_assets
WriteAssetsAttrs == {"min_dates", "max_dates", "securities"}

\* ingestion_queue.get
GetAttrs == {"ingestion_queue"}

\* except Exception in _consume_prices
ConsumeErrorAttrs_DropDates == {"conids_with_errors", "max_dates"}
ConsumeErrorAttrs == {"conids_with_errors"}

----------------------------------------------------------------------------
\* Main thread

\* ingest -> _get_securities: the master file sorted by Symbol.
GetSecurities ==
    /\ main_pc = "ingest"
    /\ \E s \in RowOrders :
          /\ SortValues(s, Symbol)
          /\ securities' = s
    /\ main_pc' = "write_bars"
    /\ UNCHANGED <<Symbol, min_dates, max_dates, ingestion_queue, idx, exc,
                   fetched, pushed, asset_db_calls, adjustment_calls>>
    /\ UNCHANGED workerVars
    /\ Touch("main", GetSecuritiesAttrs)
    /\ UNCHANGED nonRunVars

\* _write_bars up to ingestion_worker.start().
StartWorker ==
    /\ main_pc = "write_bars"
    /\ min_dates' = {}
    /\ max_dates' = {}
    /\ worker_pc' = "get"
    /\ idx' = 1
    /\ main_pc' = "enqueue"
    /\ UNCHANGED <<Symbol, securities, ingestion_queue, exc, fetched, pushed,
                   asset_db_calls, adjustment_calls, conids_with_errors, cur,
                   dequeued, write_sid_calls, daily_write_calls>>
    /\ Touch("main", StartWorkerAttrs)
    /\ UNCHANGED nonRunVars

\* _enqueue_prices, one iteration up to the put loop: download_history_file
\* returns; the dates are recorded and the series is ready to be put.
FetchData ==
    /\ main_pc = "enqueue"
    /\ idx <= Len(securities)
    /\ LET conid == IterRow(securities, idx) IN
          /\ fetched' = [fetched EXCEPT ![conid] = "data"]
          /\ min_dates' = min_dates \cup {conid}
          /\ max_dates' = max_dates \cup {conid}
    /\ main_pc' = "put"
    /\ UNCHANGED <<Symbol, securities, ingestion_queue, idx, exc, pushed,
                   asset_db_calls, adjustment_calls>>
    /\ UNCHANGED workerVars
    /\ Touch("main", FetchAttrs \cup RecordDatesAttrs)
    /\ UNCHANGED nonRunVars

\* _enqueue_prices, one iteration in which download_history_file raises
\* requests.HTTPError: skip the conid, or let the exception leave
\* _enqueue_prices, _write_bars and ingest.
FetchHTTPError ==
    /\ main_pc = "enqueue"
    /\ idx <= Len(securities)
    /\ \E msg \in HTTPErrorMsgs :
          LET conid == IterRow(securities, idx) IN
          /\ fetched' = [fetched EXCEPT ![conid] =
                             IF msg = NoHistoryMsg THEN "nodata" ELSE "error"]
          /\ IF OnHTTPError(msg) = "continue"
             THEN /\ idx' = idx + 1
                  /\ UNCHANGED <<main_pc, exc>>
             ELSE /\ main_pc' = "raised"
                  /\ exc' = "HTTPError"
                  /\ UNCHANGED idx
    /\ UNCHANGED <<Symbol, securities, min_dates, max_dates, ingestion_queue,
                   pushed, asset_db_calls, adjustment_calls>>
    /\ UNCHANGED workerVars
    /\ Touch("main", FetchAttrs)
    /\ UNCHANGED nonRunVars

\* ingestion_queue.put((conid, security, prices), timeout=5) returns.
Put ==
    /\ main_pc = "put"
    /\ ~Full(ingestion_queue)
    /\ LET conid == IterRow(securities, idx) IN
          /\ ingestion_queue' = QueuePut(ingestion_queue, conid)
          /\ pushed' = Append(pushed, conid)
    /\ idx' = idx + 1
    /\ main_pc' = "enqueue"
    /\ UNCHANGED <<Symbol, securities, min_dates, max_dates, exc, fetched,
                   asset_db_calls, adjustment_calls>>
    /\ UNCHANGED workerVars
    /\ Touch("main", PutAttrs)
    /\ UNCHANGED nonRunVars

\* The put stayed blocked for the 5 seconds: queue.Full is raised and the
\* handler reads self.worker_exception, an attribute no code assigns.
PutTimeout ==
    /\ main_pc = "put"
    /\ Full(ingestion_queue)
    /\ IF "worker_exception" \in InstanceAttributes
       THEN UNCHANGED <<main_pc, exc>>
       ELSE /\ main_pc' = "raised"
            /\ exc' = "AttributeError"
    /\ UNCHANGED <<Symbol, securities, min_dates, max_dates, ingestion_queue,
                   idx, fetched, pushed, asset_db_calls, adjustment_calls>>
    /\ UNCHANGED workerVars
    /\ Touch("main", PutTimeoutAttrs)
    /\ UNCHANGED nonRunVars

\* The loop is exhausted: _write_bars does ingestion_queue.put(None),
\* which blocks (no timeout) while the queue is full.
PutNone ==
    /\ main_pc = "enqueue"
    /\ idx > Len(securities)
    /\ ~Full(ingestion_queue)
    /\ ingestion_queue' = QueuePut(ingestion_queue, None)
    /\ main_pc' = "join"
    /\ UNCHANGED <<Symbol, securities, min_dates, max_dates, idx, exc,
                   fetched, pushed, asset_db_calls, adjustment_calls>>
    /\ UNCHANGED workerVars
    /\ Touch("main", PutAttrs)
    /\ UNCHANGED nonRunVars

\* Thread.join returns once the thread has ended, by returning from
\* _consume_prices or by an exception that left it.
ThreadEnded(pc) == pc \in {"done", "crashed"}

\* ingestion_worker.join() returns, then the rest of _write_bars.
Join ==
    /\ main_pc = "join"
    /\ ThreadEnded(worker_pc)
    /\ IF NoMaxDates(max_dates)
       THEN /\ main_pc' = "raised"
            /\ exc' = "NoData"
       ELSE /\ main_pc' = "write_assets"
            /\ UNCHANGED exc
    /\ UNCHANGED <<Symbol, securities, min_dates, max_dates, ingestion_queue,
                   idx, fetched, pushed, asset_db_calls, adjustment_calls>>
    /\ UNCHANGED workerVars
    /\ Touch("main", JoinAttrs \cup (IF NoMaxDates(max_dates) THEN {}
                                  ELSE ConvertDatesAttrs))
    /\ UNCHANGED nonRunVars

\* _write_assets: securities inner-joined with min_dates and max_dates,
\* passed to asset_db_writer.write.
WriteAssets ==
    /\ main_pc = "write_assets"
    /\ LET joined == {c \in Range(securities) :
                         c \in min_dates /\ c \in max_dates} IN
          asset_db_calls' = Append(asset_db_calls, joined)
    /\ main_pc' = "adjustment"
    /\ UNCHANGED <<Symbol, securities, min_dates, max_dates, ingestion_queue,
                   idx, exc, fetched, pushed, adjustment_calls>>
    /\ UNCHANGED workerVars
    /\ Touch("main", WriteAssetsAttrs)
    /\ UNCHANGED nonRunVars

\* ingest returns without having called adjustment_writer.write().
AdjustmentWrite_Skipped ==
    /\ main_pc = "adjustment"
    /\ main_pc' = "returned"
    /\ UNCHANGED <<Symbol, securities, min_dates, max_dates, ingestion_queue,
                   idx, exc, fetched, pushed, asset_db_calls,
                   adjustment_calls>>
    /\ UNCHANGED workerVars
    /\ UNCHANGED touched
    /\ UNCHANGED nonRunVars

\* adjustment_writer.write(), then ingest returns.
AdjustmentWrite ==
    /\ main_pc = "adjustment"
    /\ adjustment_calls' = adjustment_calls + 1
    /\ main_pc' = "returned"
    /\ UNCHANGED <<Symbol, securities, min_dates, max_dates, ingestion_queue,
                   idx, exc, fetched, pushed, asset_db_calls>>
    /\ UNCHANGED workerVars
    /\ UNCHANGED touched
    /\ UNCHANGED nonRunVars

----------------------------------------------------------------------------
\* Worker thread (_consume_prices)

\* ingestion_queue.get() returns: break on None, otherwise unpack the item
\* and go on to the writes.
Get ==
    /\ worker_pc = "get"
    /\ ingestion_queue # <<>>
    /\ LET item == QueueGetItem(ingestion_queue) IN
          IF IsTerminationSignal(item)
          THEN /\ worker_pc' = "done"
               /\ UNCHANGED <<cur, dequeued>>
          ELSE /\ worker_pc' = "write_minute"
               /\ cur' = item
               /\ dequeued' = Append(dequeued, item)
    /\ ingestion_queue' = QueueAfterGet(ingestion_queue)
    /\ UNCHANGED <<conids_with_errors, write_sid_calls, daily_write_calls,
                   Symbol>>
    /\ UNCHANGED mainVars
    /\ Touch("worker", GetAttrs)
    /\ UNCHANGED nonRunVars

\* Where the worker goes after minute_bar_writer.write_sid: on to the daily
\* roll-up and write in the same try block when it returned, to the except
\* clause and the next iteration when it raised.
AfterWriteSid_Always(ok) == "write_daily"
AfterWriteSid(ok) == IF ok THEN "write_daily" ELSE "get"

\* minute_bar_writer.write_sid(conid, prices) returns or raises; the
\* except clause records the conid and the loop goes on.
WriteMinute ==
    /\ worker_pc = "write_minute"
    /\ \E ok \in BOOLEAN :
          /\ write_sid_calls' = Append(write_sid_calls, <<cur, ok>>)
          /\ worker_pc' = AfterWriteSid(ok)
          /\ IF ok
             THEN UNCHANGED <<conids_with_errors, touched>>
             ELSE /\ conids_with_errors' =
                        OnWriteError(conids_with_errors, cur)
                  /\ Touch("worker", ConsumeErrorAttrs)
    /\ UNCHANGED <<cur, dequeued, daily_write_calls, ingestion_queue, Symbol>>
    /\ UNCHANGED mainVars
    /\ UNCHANGED nonRunVars

\* The roll-up to daily bars, the re-indexing and daily_bar_writer.write
\* return or raise; the except clause records the conid; next iteration.
WriteDaily ==
    /\ worker_pc = "write_daily"
    /\ \E ok \in BOOLEAN :
          /\ daily_write_calls' = Append(daily_write_calls, <<cur, ok>>)
          /\ IF ok
             THEN UNCHANGED <<conids_with_errors, touched>>
             ELSE /\ conids_with_errors' =
                        OnWriteError(conids_with_errors, cur)
                  /\ Touch("worker", ConsumeErrorAttrs)
    /\ worker_pc' = "get"
    /\ UNCHANGED <<cur, dequeued, write_sid_calls, ingestion_queue, Symbol>>
    /\ UNCHANGED mainVars
    /\ UNCHANGED nonRunVars

----------------------------------------------------------------------------
MainStep ==
    \/ GetSecurities
    \/ StartWorker
    \/ FetchData
    \/ FetchHTTPError
    \/ Put
    \/ PutTimeout
    \/ PutNone
    \/ Join
    \/ WriteAssets
    \/ AdjustmentWrite

WorkerStep ==
    \/ Get
    \/ WriteMinute
    \/ WriteDaily

Next == MainStep \/ WorkerStep

Spec == Init /\ [][Next]_vars

\* Both threads are scheduled by the interpreter: a thread that can take
\* a step (is not blocked in put, get or join) eventually takes one.
FairSpec == Spec /\ WF_vars(MainStep) /\ WF_vars(WorkerStep)

\* The run in which the worker thread can also end abnormally: the
\* statements of _consume_prices between the get and the try block
\* (tz_localize, which raises TypeError on an index that is already
\* tz-aware, intersection, reindex) are not inside any handler, so an
\* exception there ends the thread.
WorkerException == "TypeError"

WorkerCrash ==
    /\ worker_pc = "write_minute"
    /\ worker_pc' = "crashed"
    /\ UNCHANGED <<cur, dequeued, conids_with_errors, write_sid_calls,
                   daily_write_calls, ingestion_queue, Symbol>>
    /\ UNCHANGED mainVars
    /\ UNCHANGED touched
    /\ UNCHANGED nonRunVars

NextCrash == Next \/ WorkerCrash

SpecCrash == Init /\ [][NextCrash]_vars

----------------------------------------------------------------------------
\* One minute series followed from the fetch to the asset writer: the
\* index of the frame as _enqueue_prices, _consume_prices and _write_assets
\* transform and read it.  Timestamps are minutes counted from an origin.

\* Latest minute the history service returns a bar for (model bound).
MaxMinute == 3

\* pd.Timedelta(minutes=1)
OneMinute == 1

\* The increasing enumeration of a set of timestamps (a sorted index).
RECURSIVE SortedSeq(_)
SortedSeq(S) ==
    IF S = {} THEN <<>>
    ELSE LET m == CHOOSE x \in S : \A y \in S : x <= y
         IN <<m>> \o SortedSeq(S \ {m})

\* prices.index + pd.Timedelta(minutes=1)
ShiftIndex_None(index) == index
ShiftIndex(index) == [i \in 1..Len(index) |-> index[i] + OneMinute]

\* prices.index.intersection(calendar.all_minutes), then reindex on it.
TrimIndex_Keep(index, minutes) == index
TrimIndex(index, minutes) ==
    LET Valid(t) == t \in minutes IN SelectSeq(index, Valid)

\* The ingester is constructed and no run is under way.
RunIdle ==
    /\ Symbol = [c \in Conids |-> 1]
    /\ securities = <<>>
    /\ min_dates = {}
    /\ max_dates = {}
    /\ ingestion_queue = <<>>
    /\ conids_with_errors = {}
    /\ main_pc = "ingest"
    /\ idx = 1
    /\ exc = "none"
    /\ worker_pc = "unstarted"
    /\ cur = None
    /\ fetched = [c \in Conids |-> "none"]
    /\ pushed = <<>>
    /\ dequeued = <<>>
    /\ write_sid_calls = <<>>
    /\ daily_write_calls = <<>>
    /\ asset_db_calls = <<>>
    /\ adjustment_calls = 0
    /\ touched = {}

\* download_history_file has returned a non-empty file for the conid and
\* read_csv has parsed it: any sorted index of provider minutes, against
\* any calendar.
InitSeries ==
    /\ RunIdle
    /\ all_minutes \in (SUBSET (1..(MaxMinute + OneMinute))) \ {{}}
    /\ series_pc = "fetched"
    /\ file_index \in {SortedSeq(S) : S \in (SUBSET (1..MaxMinute)) \ {{}}}
    /\ prices_index = file_index
    /\ min_date = None
    /\ max_date = None
    /\ write_sid_index = <<>>
    /\ asset_row = <<None, None, None>>
    /\ ConfigIdle
    /\ DailyIdle
    /\ AssetsIdle
    /\ ItemsIdle
    /\ RealtimeIdle

\* _enqueue_prices: shift the index by one minute, record the first and
\* last timestamp for the asset writer.
ShiftAndRecord ==
    /\ series_pc = "fetched"
    /\ prices_index' = ShiftIndex(prices_index)
    /\ min_date' = prices_index'[1]
    /\ max_date' = prices_index'[Len(prices_index')]
    /\ series_pc' = "queued"
    /\ UNCHANGED <<all_minutes, file_index, write_sid_index, asset_row>>
    /\ UNCHANGED nonSeriesVars

\* _consume_prices: drop the minutes outside the trading calendar.
TrimToCalendar ==
    /\ series_pc = "queued"
    /\ prices_index' = TrimIndex(prices_index, all_minutes)
    /\ series_pc' = "trimmed"
    /\ UNCHANGED <<all_minutes, file_index, min_date, max_date,
                   write_sid_index, asset_row>>
    /\ UNCHANGED nonSeriesVars

\* _consume_prices: minute_bar_writer.write_sid stores the frame, or
\* raises and stores nothing.
WriteSid ==
    /\ series_pc = "trimmed"
    /\ \E ok \in BOOLEAN :
          /\ write_sid_index' = IF ok THEN prices_index ELSE <<>>
          /\ series_pc' = IF ok THEN "written" ELSE "failed"
    /\ UNCHANGED <<all_minutes, file_index, prices_index, min_date, max_date,
                   asset_row>>
    /\ UNCHANGED nonSeriesVars

\* _write_assets: the conid's row joined with min_dates (start_date) and
\* max_dates (end_date); first_traded is a copy of start_date.  The row is
\* <<start_date, end_date, first_traded>>.
JoinDates ==
    /\ series_pc \in {"written", "failed"}
    /\ asset_row' = <<min_date, max_date, min_date>>
    /\ series_pc' = "joined"
    /\ UNCHANGED <<all_minutes, file_index, prices_index, min_date,
                   max_date, write_sid_index>>
    /\ UNCHANGED nonSeriesVars

NextSeries ==
    \/ ShiftAndRecord
    \/ TrimToCalendar
    \/ WriteSid
    \/ JoinDates

SpecSeries == InitSeries /\ [][NextSeries]_vars

----------------------------------------------------------------------------
\* make_ingest_func

\* Universe codes that can be named (model input set).
UniverseCodes == {"u1", "u2"}

\* Values of the bar_size key of the database configuration; "absent"
\* stands for a configuration without the key (db_config.get gives None).
BarSizes == {"1 min", "1 day", "15 mins", "absent"}

\* Python truth value of an optional list: None and [] are false.
Truthy_NotNone(x) == x.given
Truthy(x) == x.given /\ x.items # {}

\* The optional lists over a set of items.
OptionalLists(S) == {PyNone} \cup {PyList(T) : T \in SUBSET S}

\* The body of make_ingest_func: what it raises or the ingester it builds.
MakeIngestFunc(args, cfg) ==
    IF cfg.bar_size \notin {"1 min", "1 day"}
    THEN [raised |-> TRUE, cls |-> "none",
          universes |-> PyNone, conids |-> PyNone]
    ELSE LET fallback == ~Truthy(args.universes) /\ ~Truthy(args.conids)
             universes == IF fallback THEN cfg.universes ELSE args.universes
         IN IF fallback /\ ~Truthy(universes)
            THEN [raised |-> TRUE, cls |-> "none",
                  universes |-> PyNone, conids |-> PyNone]
            ELSE [raised |-> FALSE,
                  cls |-> IF cfg.bar_size = "1 day"
                          THEN "DailyHistoryIngester"
                          ELSE "MinutelyHistoryIngester",
                  universes |-> universes,
                  conids |-> args.conids]

\* make_ingest_func is about to be called, with any arguments, for a
\* database with any configuration.
InitConfig ==
    /\ RunIdle
    /\ SeriesIdle
    /\ DailyIdle
    /\ AssetsIdle
    /\ ItemsIdle
    /\ RealtimeIdle
    /\ mk_args \in [universes : OptionalLists(UniverseCodes),
                    conids : OptionalLists(Conids)]
    /\ db_config \in [bar_size : BarSizes,
                      universes : OptionalLists(UniverseCodes)]
    /\ mk_pc = "called"
    /\ ingester = [cls |-> "none", universes |-> PyNone, conids |-> PyNone]
    /\ remote_calls = <<>>

\* The remote services make_ingest_func calls before its checks: it reads
\* the database configuration (get_db_config(code)), which both checks use.
ConfigCalls_WithMaster == <<"get_db_config", "download_master_file">>
ConfigCalls == <<"get_db_config">>

\* make_ingest_func runs: get_db_config(code), the checks, the ingester.
MakeIngest ==
    /\ mk_pc = "called"
    /\ remote_calls' = remote_calls \o ConfigCalls
    /\ LET res == MakeIngestFunc(mk_args, db_config) IN
          /\ mk_pc' = IF res.raised THEN "raised" ELSE "returned"
          /\ ingester' = [cls |-> res.cls, universes |-> res.universes,
                          conids |-> res.conids]
    /\ UNCHANGED <<mk_args, db_config>>
    /\ UNCHANGED nonConfigVars

NextConfig == MakeIngest

SpecConfig == InitConfig /\ [][NextConfig]_vars

----------------------------------------------------------------------------
\* DailyHistoryIngester: _reindex_panel_for_mismatched_sessions and
\* fillna_panel.  Dates are days counted from an origin.  The fills work
\* along the dates separately for each item of the panel, so the panel is
\* modelled by the frame of one item: a sorted major axis and one row of
\* open, high, low, close, volume per date.

\* Latest day of the calendar and of the history (model bound).
MaxDay == 4

Days == 1..MaxDay

\* numpy.nan
NaN == -1

\* At most this many sessions are named in the message.
MaxNamed == 20

\* Rows the history can carry (model input set): complete bars, an
\* all-NaN row (a date only another item has), a row with only a close
\* and a row without a close.
FullBar(c) == [open |-> c + 1, high |-> c + 2, low |-> c - 1, close |-> c,
               volume |-> 100 * c]
NaNBar == [open |-> NaN, high |-> NaN, low |-> NaN, close |-> NaN,
           volume |-> NaN]
CloseOnly(c) == [NaNBar EXCEPT !.close = c]
NoClose(c) == [FullBar(c) EXCEPT !.close = NaN]
RawBars == {FullBar(10), FullBar(20), NaNBar, CloseOnly(20), NoClose(10)}

\* The panels whose major axis is the set of days S.
PanelsOn(S) ==
    {[index |-> SortedSeq(S), rows |-> r] :
        r \in [1..Cardinality(S) -> RawBars]}

MinOf(S) == CHOOSE x \in S : \A y \in S : x <= y
MaxOf(S) == CHOOSE x \in S : \A y \in S : x >= y

\* One column of the frame.
Col(rows, field) == [i \in 1..Len(rows) |-> rows[i][field]]

\* Series.fillna(value)
FillnaValue_Keep(col, value) == col
FillnaValue(col, value) ==
    [i \in 1..Len(col) |-> IF col[i] = NaN THEN value ELSE col[i]]

\* Series.fillna(method="ffill")
Ffill_None(col) == col
Ffill(col) ==
    LET f[i \in 0..Len(col)] ==
           IF i = 0 THEN NaN
           ELSE IF col[i] # NaN THEN col[i] ELSE f[i - 1]
    IN [i \in 1..Len(col) |-> f[i]]

\* Series.shift()
Shift_NoShift(col) == col
Shift(col) == [i \in 1..Len(col) |-> IF i = 1 THEN NaN ELSE col[i - 1]]

\* Series.fillna(other)
FillnaWith(col, other) ==
    [i \in 1..Len(col) |-> IF col[i] = NaN THEN other[i] ELSE col[i]]

\* fillna_panel, on the rows of one item.
FillRows_OpenFirst(rows) ==
    LET shifted == Shift(Col(rows, "close"))
    IN [i \in 1..Len(rows) |->
           [open |-> FillnaWith(Col(rows, "open"), shifted)[i],
            high |-> FillnaWith(Col(rows, "high"), shifted)[i],
            low |-> FillnaWith(Col(rows, "low"), shifted)[i],
            close |-> Ffill(Col(rows, "close"))[i],
            volume |-> FillnaValue(Col(rows, "volume"), 0)[i]]]
FillRows(rows) ==
    LET volume == FillnaValue(Col(rows, "volume"), 0)
        close == Ffill(Col(rows, "close"))
        open == FillnaWith(Col(rows, "open"), Shift(close))
        high == FillnaWith(Col(rows, "high"), Shift(close))
        low == FillnaWith(Col(rows, "low"), Shift(close))
    IN [i \in 1..Len(rows) |->
           [open |-> open[i], high |-> high[i], low |-> low[i],
            close |-> close[i], volume |-> volume[i]]]

fillna_panel(p) == [index |-> p.index, rows |-> FillRows(p.rows)]

\* panel.reindex(major_axis=new_index): the row of each date of new_index,
\* all-NaN when the panel has no such date.
Reindex(p, new_index) ==
    [index |-> new_index,
     rows |-> [i \in 1..Len(new_index) |->
                 IF \E j \in 1..Len(p.index) : p.index[j] = new_index[i]
                 THEN p.rows[CHOOSE j \in 1..Len(p.index) :
                                p.index[j] = new_index[i]]
                 ELSE NaNBar]]

\* sessions[sessions.slice_indexer(asset_first_day, asset_last_day)]
AssetSessions(p, sess) ==
    LET asset_first_day == MinOf(Range(p.index))
        asset_last_day == MaxOf(Range(p.index))
    IN SortedSeq({d \in sess : asset_first_day <= d /\ d <= asset_last_day})

\* "Same length, so we're fine"
SameLength_Never(a, b) == FALSE
SameLength(a, b) == Len(a) = Len(b)

\* The first MaxNamed entries of a list and the number of entries left out.
Named(list) == SubSeq(list, 1, IF Len(list) > MaxNamed THEN MaxNamed
                                ELSE Len(list))
More(list) == IF Len(list) > MaxNamed THEN Len(list) - MaxNamed ELSE 0

\* _reindex_panel_for_mismatched_sessions: the panel returned and the
\* messages printed.
ReindexPanelForMismatchedSessions(p, sess) ==
    LET asset_sessions == AssetSessions(p, sess)
        missing == SortedSeq(Range(asset_sessions) \ Range(p.index))
        extra == SortedSeq(Range(p.index) \ Range(asset_sessions))
    IN IF SameLength(asset_sessions, p.index)
       THEN [panel |-> p, printed |-> <<>>]
       ELSE [panel |-> fillna_panel(Reindex(p, asset_sessions)),
             printed |-> <<[missing |-> Named(missing),
                            missing_more |-> More(missing),
                            extra |-> Named(extra),
                            extra_more |-> More(extra)]>>]

\* _reindex_and_fillna_missing_sessions, on the daily frame rolled up from
\* the minute bars of one conid: the frame returned.
ReindexAndFillnaMissingSessions(daily_prices, sess) ==
    LET required_idx == AssetSessions(daily_prices, sess)
        reindexed == Reindex(daily_prices, required_idx)
    IN [index |-> required_idx, rows |-> FillRows(reindexed.rows)]

\* The history has been read into a panel: any non-empty set of dates with
\* any rows, against any non-empty set of calendar sessions.
InitDaily ==
    /\ RunIdle
    /\ SeriesIdle
    /\ ConfigIdle
    /\ AssetsIdle
    /\ ItemsIdle
    /\ RealtimeIdle
    /\ sessions \in (SUBSET Days) \ {{}}
    /\ panel \in UNION {PanelsOn(S) : S \in (SUBSET Days) \ {{}}}
    /\ daily_pc = "loaded"
    /\ out_panel = EmptyPanel
    /\ printed = <<>>

\* _write_bars calls _reindex_panel_for_mismatched_sessions on the panel.
ReindexPanel ==
    /\ daily_pc = "loaded"
    /\ LET res == ReindexPanelForMismatchedSessions(panel, sessions) IN
          /\ out_panel' = res.panel
          /\ printed' = res.printed
    /\ daily_pc' = "reindexed"
    /\ UNCHANGED <<sessions, panel>>
    /\ UNCHANGED nonDailyVars

\* fillna_panel is called on the panel itself (it is a classmethod).
FillnaPanel ==
    /\ daily_pc = "loaded"
    /\ out_panel' = fillna_panel(panel)
    /\ daily_pc' = "filled"
    /\ UNCHANGED <<sessions, panel, printed>>
    /\ UNCHANGED nonDailyVars

\* fillna_panel is called on a panel it returned.
FillnaPanelAgain ==
    /\ daily_pc = "filled"
    /\ out_panel' = fillna_panel(out_panel)
    /\ daily_pc' = "refilled"
    /\ UNCHANGED <<sessions, panel, printed>>
    /\ UNCHANGED nonDailyVars

\* _consume_prices calls _reindex_and_fillna_missing_sessions on the daily
\* frame of the conid it is writing.
ReindexAndFillna ==
    /\ daily_pc = "loaded"
    /\ out_panel' = ReindexAndFillnaMissingSessions(panel, sessions)
    /\ daily_pc' = "rolled"
    /\ UNCHANGED <<sessions, panel, printed>>
    /\ UNCHANGED nonDailyVars

NextDaily ==
    \/ ReindexPanel
    \/ FillnaPanel
    \/ FillnaPanelAgain
    \/ ReindexAndFillna

SpecDaily == InitDaily /\ [][NextDaily]_vars

----------------------------------------------------------------------------
\* _write_assets: the symbol given to each future.  self.securities has
\* been joined with the dates; each row carries SecType, Symbol (the root
\* symbol of a future), LocalSymbol and ContractMonth.

\* Number of rows of self.securities (model bound).
NumRows == 2

\* Values of the Symbol, LocalSymbol and ContractMonth columns (model
\* input sets).  The months have one and two digits and a local symbol
\* ends with a digit, so that different rows can give the same characters
\* in a row.
RootSymbols == {"ES", "NQ"}
LocalSymbols == {"ES", "ES1"}
ContractMonths == {2, 12}

\* The rows the master file can carry: futures, and stocks, whose
\* ContractMonth field is empty (NaN after read_csv).
MasterRows ==
    [SecType : {"FUT"}, Symbol : RootSymbols, LocalSymbol : LocalSymbols,
     ContractMonth : ContractMonths]
    \cup [SecType : {"STK"}, Symbol : RootSymbols, LocalSymbol : RootSymbols,
          ContractMonth : {NaN}]

\* read_csv makes the ContractMonth column float64 when a field of it is
\* empty, int64 otherwise.
IsFloatColumn(rows) == \E i \in 1..Len(rows) : rows[i].ContractMonth = NaN

\* futures.ContractMonth.astype(str): the decimal digits of the month,
\* followed by ".0" in a float64 column.
AsTypeStr(month, is_float) ==
    IF is_float THEN ToString(month) \o ".0" ELSE ToString(month)

\* Series.str.cat(others, sep)
StrCat_NoSep(left, right, sep) == left \o right
StrCat(left, right, sep) == left \o sep \o right

\* self.securities[self.securities.SecType == "FUT"]
FuturesOf(rows) == LET IsFut(r) == r.SecType = "FUT" IN SelectSeq(rows, IsFut)

\* The futures frame built by _write_assets: symbol and root_symbol of
\* each future.
FuturesFrame(rows) ==
    LET fut == FuturesOf(rows)
        is_float == IsFloatColumn(rows)
    IN [i \in 1..Len(fut) |->
           [symbol |-> StrCat(fut[i].LocalSymbol,
                              AsTypeStr(fut[i].ContractMonth, is_float), "-"),
            root_symbol |-> fut[i].Symbol]]

\* _write_assets is entered with the joined securities: any rows.
InitAssets ==
    /\ RunIdle
    /\ SeriesIdle
    /\ ConfigIdle
    /\ DailyIdle
    /\ ItemsIdle
    /\ RealtimeIdle
    /\ master \in [1..NumRows -> MasterRows]
    /\ assets_pc = "joined"
    /\ futures = <<>>

\* _write_assets from the selection of the futures to
\* asset_db_writer.write(futures=...); futures is None when there is none.
WriteFutures ==
    /\ assets_pc = "joined"
    /\ futures' = FuturesFrame(master)
    /\ assets_pc' = "written"
    /\ UNCHANGED master
    /\ UNCHANGED nonAssetVars

NextAssets == WriteFutures

SpecAssets == InitAssets /\ [][NextAssets]_vars

----------------------------------------------------------------------------
\* DailyHistoryIngester.fillna_panel on a panel of several items: after
\* swapaxes each field (open, high, low, close, volume) is a DataFrame
\* with one column per item, and the fills are DataFrame operations.

\* At most this many dates on the major axis.
PanelLen == 3

\* Rows an item can carry (model input set): the two items trade at
\* different prices, as in the module's test.
ItemBars(a) ==
    LET c == IF a = "symbol1" THEN 10 ELSE 20
    IN {FullBar(c), NaNBar, CloseOnly(c), NoClose(c)}

\* panel.swapaxes("items", "minor").<field>: the frame of one field, one
\* column per item.
FieldFrame(p, field) == [a \in DOMAIN p.items |-> Col(p.items[a], field)]

\* DataFrame.fillna(value)
FrameFillnaValue(df, value) == [a \in DOMAIN df |-> FillnaValue(df[a], value)]

\* DataFrame.fillna(method="ffill"): along the index (axis 0), each column
\* on its own.
FrameFfill_AcrossItems(df) ==
    [a \in DOMAIN df |->
        [i \in 1..Len(df[a]) |->
            IF df[a][i] # NaN THEN df[a][i]
            ELSE LET b == CHOOSE x \in DOMAIN df : x # a IN df[b][i]]]
FrameFfill(df) == [a \in DOMAIN df |-> Ffill(df[a])]

\* DataFrame.shift(): one row down, each column on its own.
FrameShift(df) == [a \in DOMAIN df |-> Shift(df[a])]

\* DataFrame.fillna(other): aligned on the index and on the column labels.
FrameFillnaWith(df, other) ==
    [a \in DOMAIN df |-> FillnaWith(df[a], other[a])]

\* fillna_panel: swap the axes, fill field by field, swap back.
FillnaPanelItems(p) ==
    LET volume == FrameFillnaValue(FieldFrame(p, "volume"), 0)
        close == FrameFfill(FieldFrame(p, "close"))
        open == FrameFillnaWith(FieldFrame(p, "open"), FrameShift(close))
        high == FrameFillnaWith(FieldFrame(p, "high"), FrameShift(close))
        low == FrameFillnaWith(FieldFrame(p, "low"), FrameShift(close))
    IN [index |-> p.index,
        items |-> [a \in DOMAIN p.items |->
                      [i \in 1..Len(p.index) |->
                          [open |-> open[a][i], high |-> high[a][i],
                           low |-> low[a][i], close |-> close[a][i],
                           volume |-> volume[a][i]]]]]

\* A panel of the two items over one to PanelLen dates; a date only one
\* item has is an all-NaN row of the other.
InitItems ==
    /\ RunIdle
    /\ SeriesIdle
    /\ ConfigIdle
    /\ DailyIdle
    /\ AssetsIdle
    /\ RealtimeIdle
    /\ \E n \in 1..PanelLen :
          /\ items_panel \in
                [index : {[i \in 1..n |-> i]},
                 items : {r \in [PanelItems ->
                                    UNION {[1..n -> ItemBars(a)] :
                                              a \in PanelItems}] :
                             \A a \in PanelItems :
                                r[a] \in [1..n -> ItemBars(a)]}]
    /\ items_pc = "loaded"
    /\ items_out = [index |-> <<>>, items |-> [a \in PanelItems |-> <<>>]]

\* fillna_panel(panel) returns.
FillnaItems ==
    /\ items_pc = "loaded"
    /\ items_out' = FillnaPanelItems(items_panel)
    /\ items_pc' = "filled"
    /\ UNCHANGED items_panel
    /\ UNCHANGED nonItemsVars

NextItems == FillnaItems

SpecItems == InitItems /\ [][NextItems]_vars

----------------------------------------------------------------------------
\* realtime.py: RealtimeDatabase (the process-wide binding of a realtime
\* database code and field mapping) and set_realtime_db.

\* At most this many calls are followed.
MaxCalls == 3

\* Codes that can be passed (model input set): two databases and the
\* empty string.
RtCodes == {"", "db1", "db2"}

\* Zipline fields that can be asked for or mapped; "bid" is not one of the
\* expected fields.
ZiplineFields == {"close", "bid"}

\* expected_zipline_fields
ExpectedZiplineFields == {"close", "low", "high", "open", "volume"}

\* Mappings that can be passed, as sets of <<key, value>>: the default {},
\* a valid one, one with an unexpected Zipline field and one with a
\* database field the database does not have.
FieldMaps ==
    {{}, {<<"close", "LastPriceClose">>}, {<<"bid", "LastPriceClose">>},
     {<<"close", "Bogus">>}}

\* What get_db_config(code) can give: the configuration of an existing
\* database, or an error when there is no database of that code (always
\* so for the empty code).
DbConfigs(code) ==
    {[found |-> FALSE, bar_size |-> "", fields |-> {}]} \cup
    (IF code = "" THEN {}
     ELSE {[found |-> TRUE, bar_size |-> b, fields |-> {"LastPriceClose"}] :
              b \in {"1 min", "5 mins"}})

\* pd.Timedelta(bar_size), in minutes.
Timedelta(bar_size) ==
    CASE bar_size = "1 min" -> 1
      [] bar_size = "5 mins" -> 5

\* The names bound in the module realtime.py when set_realtime_db runs:
\* its two imports, the class and the function. pd is not among them.
ModuleGlobals ==
    {"get_db_config", "BadArgument", "RealtimeDatabase", "set_realtime_db"}

Keys(fields) == {p[1] : p \in fields}
Values(fields) == {p[2] : p \in fields}

\* How set_realtime_db ends once the binding is stored: get_db_config
\* raises, or evaluating pd.Timedelta raises NameError, or a check raises
\* BadArgument, or it returns.
SetOutcome(code, fields, config) ==
    IF ~config.found THEN "HTTPError"
    ELSE IF "pd" \notin ModuleGlobals THEN "NameError"
    ELSE IF Timedelta(config.bar_size) # Timedelta("1 min")
         THEN "BadArgument"
    ELSE IF fields # {} /\ Keys(fields) \ ExpectedZiplineFields # {}
         THEN "BadArgument"
    ELSE IF fields # {} /\ Values(fields) \ config.fields # {}
         THEN "BadArgument"
    ELSE "returned"

\* The binding <<CODE, FIELDS>> after set_realtime_db(code, fields): the
\* two assignments are the first statements of the function.
BindingAfterSet_ValidateFirst(old, code, fields, outcome) ==
    IF outcome = "returned" THEN <<<<code>>, fields>> ELSE old
BindingAfterSet(old, code, fields, outcome) == <<<<code>>, fields>>

\* Python truth value of CODE: None and "" are false.
CodeTruthy(code) == code # <<>> /\ code[1] # ""

\* RealtimeDatabase.get_code()
GetCode_NoneOnly(code) ==
    IF code = <<>>
    THEN [outcome |-> "BadArgument", value |-> ""]
    ELSE [outcome |-> "returned", value |-> code[1]]
GetCode(code) ==
    IF ~CodeTruthy(code)
    THEN [outcome |-> "BadArgument", value |-> ""]
    ELSE [outcome |-> "returned", value |-> code[1]]

\* RealtimeDatabase.get_db_field(zipline_field)
GetDbField(fields, zipline_field) ==
    IF zipline_field \in Keys(fields)
    THEN [outcome |-> "returned",
          value |-> (CHOOSE p \in fields : p[1] = zipline_field)[2]]
    ELSE [outcome |-> "BadArgument", value |-> ""]

\* The module has been imported; no call has been made.
InitRealtime ==
    /\ RunIdle
    /\ SeriesIdle
    /\ ConfigIdle
    /\ DailyIdle
    /\ AssetsIdle
    /\ ItemsIdle
    /\ RealtimeIdle

\* set_realtime_db(code, fields) runs to its return or to an exception.
SetRealtimeDb ==
    /\ rt_count < MaxCalls
    /\ \E code \in RtCodes, fields \in FieldMaps :
          \E config \in DbConfigs(code) :
             LET outcome == SetOutcome(code, fields, config)
                 binding == BindingAfterSet(<<CODE, FIELDS>>, code, fields,
                                            outcome)
             IN /\ CODE' = binding[1]
                /\ FIELDS' = binding[2]
                /\ rt_call' = [op |-> "set_realtime_db", code |-> code,
                               fields |-> fields, field |-> "",
                               outcome |-> outcome, value |-> ""]
                /\ rt_set' = <<[code |-> code, fields |-> fields,
                                config |-> config, outcome |-> outcome,
                                before |-> <<CODE, FIELDS>>,
                                named |-> code # "" \/
                                          (rt_set # <<>> /\ rt_set[1].named)]>>
    /\ rt_count' = rt_count + 1
    /\ UNCHANGED nonRealtimeVars

\* RealtimeDatabase.get_code() returns or raises.
GetCodeCall ==
    /\ rt_count < MaxCalls
    /\ LET r == GetCode(CODE)
       IN rt_call' = [op |-> "get_code", code |-> "", fields |-> {},
                      field |-> "", outcome |-> r.outcome,
                      value |-> r.value]
    /\ rt_count' = rt_count + 1
    /\ UNCHANGED <<CODE, FIELDS, rt_set>>
    /\ UNCHANGED nonRealtimeVars

\* RealtimeDatabase.get_db_field(zipline_field) returns or raises.
GetDbFieldCall ==
    /\ rt_count < MaxCalls
    /\ \E f \in ZiplineFields :
          LET r == GetDbField(FIELDS, f)
          IN rt_call' = [op |-> "get_db_field", code |-> "", fields |-> {},
                         field |-> f, outcome |-> r.outcome,
                         value |-> r.value]
    /\ rt_count' = rt_count + 1
    /\ UNCHANGED <<CODE, FIELDS, rt_set>>
    /\ UNCHANGED nonRealtimeVars

NextRealtime == SetRealtimeDb \/ GetCodeCall \/ GetDbFieldCall

SpecRealtime == InitRealtime /\ [][NextRealtime]_vars

----------------------------------------------------------------------------
\* Derived notions used by the properties

\* ingest() has returned or an exception has left it.
Terminated == main_pc \in {"returned", "raised"}

\* Conids of the calls in a writer's call log, in call order.
CallConids(calls) == [i \in 1..Len(calls) |-> calls[i][1]]

\* Conids for which a call in the log raised / returned.
RaisedIn(calls) == {calls[i][1] : i \in {j \in 1..Len(calls) : ~calls[j][2]}}
ReturnedIn(calls) == {calls[i][1] : i \in {j \in 1..Len(calls) : calls[j][2]}}

\* Conids for which the minute-bar or the daily-bar write raised.
WriteRaised == RaisedIn(write_sid_calls) \cup RaisedIn(daily_write_calls)

\* Conids whose minute bars and daily bars were both written without error.
Ingested == ReturnedIn(write_sid_calls) \cap ReturnedIn(daily_write_calls)

IsPrefix(a, b) == Len(a) <= Len(b) /\ \A i \in 1..Len(a) : a[i] = b[i]

\* a is b with some elements left out, the rest in b's order.
Restrict(b, S) == LET In(x) == x \in S IN SelectSeq(b, In)
IsOrderedSubseq(a, b) == a = Restrict(b, Range(a))

Occurrences(s, x) == Cardinality({i \in 1..Len(s) : s[i] = x})

\* The write requests on the queue (the termination signal left out).
QueuedRequests == LET Real(x) == x # None IN SelectSeq(ingestion_queue, Real)

----------------------------------------------------------------------------
\* A step in which a call of write_sid or of daily_bar_writer.write raised.
WriteRaisesNow ==
    \/ /\ Len(write_sid_calls') > Len(write_sid_calls)
       /\ ~write_sid_calls'[Len(write_sid_calls')][2]
    \/ /\ Len(daily_write_calls') > Len(daily_write_calls)
       /\ ~daily_write_calls'[Len(daily_write_calls')][2]

\* C1: when the minute-bar write or the daily-bar write for the dequeued
\* conid raises, in that same step the conid is added to
\* conids_with_errors and the worker goes back to get() for the next item;
\* the main thread is not affected and no exception leaves the run.
C1_WriteErrorIsolated ==
    [][WriteRaisesNow =>
          /\ cur \in conids_with_errors'
          /\ worker_pc' = "get"
          /\ main_pc' = main_pc
          /\ exc' = exc]_vars

\* A write raised for the first dequeued conid, and the worker went on to
\* dequeue a second conid and later the termination signal.
C1_Witness ==
    /\ Len(dequeued) >= 2
    /\ dequeued[1] \in WriteRaised
    /\ dequeued[1] \in conids_with_errors
    /\ worker_pc = "done"

\* Conids whose download_history_file call raised an HTTPError other than
\* the no-history one.
FetchErrors == {c \in Conids : fetched[c] = "error"}

\* C2 (as claimed): in a run in which the fetch of exactly one conid k
\* fails with a provider/transport error, the run continues: when it has
\* ended no HTTPError has left it, conids_with_errors is {k}, and the other
\* conids were passed to the minute-bar writer in catalog order.
C2_FetchErrorIsolated ==
    \A k \in Conids :
       (Terminated /\ FetchErrors = {k}) =>
          /\ exc # "HTTPError"
          /\ conids_with_errors = {k}
          /\ CallConids(write_sid_calls) =
                Restrict(securities, Conids \ {k})

\* What holds of a conid whose fetch met the no-history reply.
SkippedCleanly(c) ==
    /\ c \notin Range(pushed)
    /\ c \notin Range(ingestion_queue)
    /\ c \notin Range(dequeued)
    /\ c \notin Range(CallConids(write_sid_calls))
    /\ c \notin Range(CallConids(daily_write_calls))
    /\ c \notin min_dates
    /\ c \notin max_dates
    /\ c \notin conids_with_errors

\* C3: when the fetch of a conid meets the no-history reply, the producer
\* goes on to the next row in that step (no exception, loop position
\* advanced by one), and from then on nothing is enqueued or written for
\* the conid, no dates are recorded for it and it is not in
\* conids_with_errors.
C3_NoDataSkipped ==
    [][\A c \in Conids :
          fetched'[c] = "nodata" =>
             /\ SkippedCleanly(c)'
             /\ fetched[c] # "nodata" =>
                   /\ main_pc' = "enqueue"
                   /\ idx' = idx + 1
                   /\ exc' = "none"]_vars

\* A conid was skipped for no data and a later row of the catalog was
\* fetched, enqueued and written.
C3_Witness ==
    \E i, j \in 1..Len(securities) :
       /\ i < j
       /\ fetched[securities[i]] = "nodata"
       /\ SkippedCleanly(securities[i])
       /\ securities[j] \in Ingested

\* Every instrument of the run met the no-history reply.
AllNoData == \A c \in Conids : fetched[c] = "nodata"

\* C4: if every instrument meets the no-history reply at fetch, the run
\* ends with NoData, raised after the producer loop has finished and the
\* worker has exited, and asset_db_writer.write is never called; under
\* fair scheduling the run does end.
C4_AllNoDataIsFatal ==
    /\ [](AllNoData =>
             /\ asset_db_calls = <<>>
             /\ main_pc \notin {"write_assets", "adjustment", "returned"}
             /\ Terminated =>
                   /\ exc = "NoData"
                   /\ worker_pc = "done"
                   /\ idx > Len(securities))
    /\ (AllNoData ~> (main_pc = "raised" /\ exc = "NoData"))

\* The run of all-no-data instruments has ended with NoData.
C4_Witness ==
    /\ AllNoData
    /\ main_pc = "raised"
    /\ exc = "NoData"
    /\ worker_pc = "done"
    /\ asset_db_calls = <<>>

\* C5 (as claimed): once producer and worker have terminated, the run goes
\* on past the NoData check only if at least one conid had its bars
\* written without error.
C5_ZeroIngestedIsFatal ==
    main_pc \in {"write_assets", "adjustment", "returned"} => Ingested # {}

\* s is in catalog order: non-decreasing in Symbol.
InSymbolOrder(s) ==
    \A i, j \in 1..Len(s) : i < j => Symbol[s[i]] <= Symbol[s[j]]

\* C6: the requests reach the worker in the order they were put, and the
\* conids passed to either bar writer are, in call order, the enqueued
\* conids in the order of the catalog rows (sorted by Symbol) the
\* producer iterated.
C6_WrittenInCatalogOrder ==
    /\ IsOrderedSubseq(pushed, securities)
    /\ IsPrefix(dequeued, pushed)
    /\ IsPrefix(CallConids(write_sid_calls), dequeued)
    /\ IsOrderedSubseq(CallConids(write_sid_calls), securities)
    /\ IsOrderedSubseq(CallConids(daily_write_calls), securities)
    /\ InSymbolOrder(CallConids(write_sid_calls))
    /\ InSymbolOrder(CallConids(daily_write_calls))
    /\ worker_pc = "done" => CallConids(write_sid_calls) = pushed

\* The worker has exited after writes for two conids with a conid that was
\* skipped between them in the catalog.
C6_Witness ==
    /\ worker_pc = "done"
    /\ Len(write_sid_calls) = 2
    /\ Len(daily_write_calls) = 2
    /\ Len(securities) = 3
    /\ fetched[securities[2]] = "nodata"
    /\ CallConids(write_sid_calls) = <<securities[1], securities[3]>>

C8_JoinBeforeReturn ==
    Terminated => worker_pc = "done"

\* C9 (as claimed): a push that finds the queue full only waits and then
\* succeeds: from inside the put loop the producer either stays there or
\* leaves it with the item on the queue.
C9_FullQueueOnlyDelays ==
    [][main_pc = "put" => main_pc' \in {"put", "enqueue"}]_vars

\* Series held on the producer side: the one fetched and not yet put, and
\* the ones on the queue.
ProducerSideSeries ==
    (IF main_pc = "put" THEN 1 ELSE 0) + Len(QueuedRequests)

\* C10: the queue never holds more than maxsize = 1 item, and the producer
\* side never holds more than 2 series (1 queued + 1 being built).
C10_QueueHoldsAtMostOne ==
    /\ Len(ingestion_queue) <= 1
    /\ ProducerSideSeries <= 2

\* The producer holds a fetched series while another one is on the queue.
C10_Witness ==
    /\ main_pc = "put"
    /\ Len(QueuedRequests) = 1
    /\ ProducerSideSeries = 2

\* Series in flight: the one the producer has fetched and not yet put,
\* the ones on the queue, and the one the worker is writing.
Building == IF main_pc = "put" THEN 1 ELSE 0
Writing == IF worker_pc \in {"write_minute", "write_daily"} THEN 1 ELSE 0
InFlight == Building + Len(QueuedRequests) + Writing

\* C11 (as claimed): at most 2 series are in flight at any moment.
C11_AtMostTwoInFlight ==
    InFlight <= 2

\* C11 (amended): at most 3 series are in flight at any moment: one being
\* built by the producer, one on the queue and one being written by the
\* worker.
C11_AtMostThreeInFlight ==
    /\ Len(QueuedRequests) <= 1
    /\ InFlight <= 3

\* One series is being written, one is queued and one is waiting in put().
C11_Witness ==
    /\ Building = 1
    /\ Len(QueuedRequests) = 1
    /\ Writing = 1
    /\ InFlight = 3

\* The termination signal has been put on the queue.
SentinelPut ==
    \/ main_pc \in {"join", "write_assets", "adjustment", "returned"}
    \/ main_pc = "raised" /\ exc = "NoData"

C13_OnlyIngestedInMetadata ==
    \A i \in 1..Len(asset_db_calls) :
       asset_db_calls[i] \subseteq ReturnedIn(write_sid_calls)

\* C15 (as claimed), for the runs that no HTTPError or AttributeError
\* leaves: when the run has ended adjustment_writer.write has been called,
\* whatever the number of instruments that succeeded (zero included).
C15_AlwaysFlushed ==
    (Terminated /\ exc \notin {"HTTPError", "AttributeError"}) =>
       adjustment_calls = 1

\* C15 (amended): whenever ingest returns, adjustment_writer.write has been
\* called exactly once and it was the last storage call, after all bar
\* writes and the metadata write, however many writes failed; when ingest
\* raises it has not been called.
C15_FlushedWhenReturned ==
    /\ [](/\ adjustment_calls <= 1
          /\ main_pc = "returned" <=> adjustment_calls = 1
          /\ main_pc = "raised" => adjustment_calls = 0
          /\ adjustment_calls = 1 =>
                /\ worker_pc = "done"
                /\ Len(asset_db_calls) = 1)
    /\ [][adjustment_calls = 1 =>
             UNCHANGED <<write_sid_calls, daily_write_calls, asset_db_calls,
                         adjustment_calls>>]_vars

\* ingest has returned after the flush in a run where every write raised.
C15_Witness ==
    /\ main_pc = "returned"
    /\ adjustment_calls = 1
    /\ Ingested = {}
    /\ Cardinality(WriteRaised) >= 2

\* C16 (as claimed): if at least one instrument was ingested and another
\* failed at write, the run does not raise: when it has ended, ingest has
\* returned after the metadata write and the adjustment flush.
C16_PartialFailureNoRaise ==
    (Terminated /\ Ingested # {} /\ WriteRaised \ Ingested # {}) =>
       /\ main_pc = "returned"
       /\ Len(asset_db_calls) = 1
       /\ adjustment_calls = 1

\* C14 (as claimed), for an instrument whose bars were written: in the
\* metadata write its start_date and first_traded are the timestamp of the
\* first bar written to storage for it and its end_date is the timestamp
\* of its last written bar.
C14_BoundsFromWrittenBars ==
    (series_pc = "joined" /\ write_sid_index # <<>>) =>
       /\ asset_row[1] = write_sid_index[1]
       /\ asset_row[3] = write_sid_index[1]
       /\ asset_row[2] = write_sid_index[Len(write_sid_index)]

\* The universes in effect: the argument, or the database's configured
\* universes when neither universes nor conids is given.
EffectiveUniverses ==
    IF mk_args.universes.items = {} /\ mk_args.conids.items = {}
    THEN db_config.universes.items
    ELSE mk_args.universes.items

\* C17 (as claimed): make_ingest_func returns only when exactly one of
\* conids and the universes in effect is non-empty.
C17_ExactlyOneSelection ==
    mk_pc = "returned" =>
       (mk_args.conids.items # {}) # (EffectiveUniverses # {})

\* C17 (amended): make_ingest_func raises BadIngestionArgument exactly
\* when the bar size is neither 1 min nor 1 day or when neither conids nor
\* the universes in effect is non-empty; otherwise (both non-empty
\* included) it returns, the ingester getting conids as given and the
\* universes in effect.
C17_AtLeastOneSelection ==
    mk_pc \in {"returned", "raised"} =>
       /\ mk_pc = "raised" <=>
             \/ db_config.bar_size \notin {"1 min", "1 day"}
             \/ mk_args.conids.items = {} /\ EffectiveUniverses = {}
       /\ mk_pc = "returned" =>
             /\ ingester.conids = mk_args.conids
             /\ ingester.universes.items = EffectiveUniverses
             /\ ingester.cls = IF db_config.bar_size = "1 day"
                               THEN "DailyHistoryIngester"
                               ELSE "MinutelyHistoryIngester"

\* make_ingest_func has returned with both conids and universes non-empty.
C17_Witness ==
    /\ mk_pc = "returned"
    /\ mk_args.conids.items # {}
    /\ mk_args.universes.items # {}
    /\ ingester.conids = mk_args.conids
    /\ ingester.universes = mk_args.universes

\* The calendar sessions between the first and the last date of the panel.
GridSubRange ==
    {d \in sessions : MinOf(Range(panel.index)) <= d
                      /\ d <= MaxOf(Range(panel.index))}

\* C18 (as claimed): the dates of the aligned panel are exactly the
\* calendar sessions between the raw panel's first and last date.
C18_AlignedToGrid ==
    daily_pc = "reindexed" => Range(out_panel.index) = GridSubRange

\* C19: a panel whose dates are exactly the calendar sessions between its
\* first and last date is returned as it is, same dates and same values
\* (NaN included), and nothing is printed.
C19_AlignIdentity ==
    (daily_pc = "reindexed" /\ Range(panel.index) = GridSubRange) =>
       /\ out_panel = panel
       /\ printed = <<>>

\* A panel that matches the grid and has an all-NaN row after a known
\* close came back unchanged.
C19_Witness ==
    /\ daily_pc = "reindexed"
    /\ Range(panel.index) = GridSubRange
    /\ Len(panel.rows) >= 2
    /\ panel.rows[1].close # NaN
    /\ panel.rows[2] = NaNBar
    /\ out_panel = panel

\* The last close known at row i: the close of the latest row up to i
\* that has one, NaN when there is none.
LastKnownClose(rows, i) ==
    LET known == {j \in 1..i : rows[j].close # NaN}
    IN IF known = {} THEN NaN ELSE rows[MaxOf(known)].close

\* What the fill policy makes of row i of the rows given.
FilledAsStated(rows, i) ==
    LET prior == IF i = 1 THEN NaN ELSE LastKnownClose(rows, i - 1)
        Price(field) == IF rows[i][field] # NaN THEN rows[i][field]
                        ELSE prior
    IN [open |-> Price("open"), high |-> Price("high"),
        low |-> Price("low"), close |-> LastKnownClose(rows, i),
        volume |-> IF rows[i].volume = NaN THEN 0 ELSE rows[i].volume]

\* The example of the claim: sessions D1..D5, bars on D1, D3, D5 with
\* closes 10, 9, 11 and volumes 100, 200, 150.
ExamplePanel ==
    [index |-> <<1, 3, 5>>,
     rows |-> <<[FullBar(10) EXCEPT !.volume = 100],
                [FullBar(9) EXCEPT !.volume = 200],
                [FullBar(11) EXCEPT !.volume = 150]>>]
ExampleResult == ReindexPanelForMismatchedSessions(ExamplePanel, 1..5).panel
FlatBar(c) == [open |-> c, high |-> c, low |-> c, close |-> c, volume |-> 0]

\* C20: after fill, a missing volume is 0, the close is the last known
\* close, and a missing open, high or low is the last known close of the
\* rows before it (the filled close shifted by one row), so that a row
\* that was all-missing carries the last known close in all four prices;
\* rows added for missing sessions by the alignment, trailing rows
\* included, are filled the same way; on the example D2 is all 10 and D4
\* all 9, with volume 0.
C20_FillPolicy ==
    /\ daily_pc = "filled" =>
          /\ out_panel.index = panel.index
          /\ \A i \in 1..Len(panel.rows) :
                out_panel.rows[i] = FilledAsStated(panel.rows, i)
    /\ (daily_pc = "reindexed" /\ printed # <<>>) =>
          LET kept == Reindex(panel, out_panel.index).rows IN
          \A i \in 1..Len(out_panel.index) :
             /\ out_panel.rows[i] = FilledAsStated(kept, i)
             /\ (out_panel.index[i] \notin Range(panel.index) /\ i > 1) =>
                   out_panel.rows[i] = FlatBar(LastKnownClose(kept, i - 1))
    /\ ExampleResult.index = <<1, 2, 3, 4, 5>>
    /\ ExampleResult.rows[2] = FlatBar(10)
    /\ ExampleResult.rows[4] = FlatBar(9)
    /\ ExampleResult.rows[1] = ExamplePanel.rows[1]
    /\ ExampleResult.rows[3] = ExamplePanel.rows[2]
    /\ ExampleResult.rows[5] = ExamplePanel.rows[3]

\* A known close followed by two all-NaN rows, the last one trailing, has
\* been filled: both rows carry that close and volume 0.
C20_Witness ==
    /\ daily_pc = "filled"
    /\ Len(panel.rows) = 3
    /\ panel.rows[1] = FullBar(10)
    /\ panel.rows[2] = NaNBar
    /\ panel.rows[3] = NaNBar
    /\ out_panel.rows[2] = FlatBar(10)
    /\ out_panel.rows[3] = FlatBar(10)

\* The frame the fill worked on: the panel itself, or the panel re-indexed
\* to the dates of the result.
FillInput == Reindex(panel, out_panel.index).rows

\* The fill has been applied and its result is in out_panel.
Filled ==
    \/ daily_pc \in {"filled", "rolled"}
    \/ daily_pc = "reindexed" /\ printed # <<>>

\* C21: after fill (of the daily panel, or of the daily frame rolled up
\* from minute bars) no volume is missing, every volume that was missing
\* is 0, and a close is missing only in rows with no non-missing close in
\* that row or any earlier row.
C21_VolumeAndCloseFilled ==
    Filled =>
       \A i \in 1..Len(out_panel.rows) :
          /\ out_panel.rows[i].volume # NaN
          /\ FillInput[i].volume = NaN => out_panel.rows[i].volume = 0
          /\ out_panel.rows[i].close = NaN =>
                \A j \in 1..i : FillInput[j].close = NaN

\* The rolled-up daily frame of a conid had a session missing after a
\* known close; the row added for it has volume 0 and that close.
C21_Witness ==
    /\ daily_pc = "rolled"
    /\ Len(out_panel.rows) = 3
    /\ Len(panel.rows) = 2
    /\ panel.rows[1] = FullBar(20)
    /\ out_panel.index[2] \notin Range(panel.index)
    /\ out_panel.rows[2].volume = 0
    /\ out_panel.rows[2].close = 20

\* The result of a fill has one complete row for each row of its input.
WellFormed(p, n) ==
    /\ Len(p.index) = n
    /\ DOMAIN p.rows = 1..n
    /\ \A i \in 1..n :
          DOMAIN p.rows[i] = {"open", "high", "low", "close", "volume"}

\* C22: fill is idempotent and total: whatever is missing in the panel
\* (leading gaps and partly missing rows included) the fill returns a
\* complete panel on the same dates, and filling that panel again returns
\* it unchanged.
C22_FillIdempotentTotal ==
    [][/\ (daily_pc = "loaded" /\ daily_pc' = "filled") =>
             /\ WellFormed(out_panel', Len(panel.rows))
             /\ out_panel'.index = panel.index
       /\ daily_pc' = "refilled" =>
             /\ daily_pc = "filled"
             /\ out_panel' = out_panel]_vars

\* A panel with a leading gap, a row without a close and two missing rows
\* in a row has been filled twice.
C22_Witness ==
    /\ daily_pc = "refilled"
    /\ Len(panel.rows) = 4
    /\ panel.rows[1] = NaNBar
    /\ panel.rows[2] = NoClose(10)
    /\ panel.rows[3] = NaNBar
    /\ panel.rows[4] = NaNBar
    /\ out_panel = fillna_panel(panel)

\* The rows of a frame that no known close precedes.
LeadingRows(rows) ==
    {i \in 1..Len(rows) : \A j \in 1..(i - 1) : rows[j].close = NaN}

\* The frame starts with a gap: its first row lacks an open, high or low.
StartsWithGap(rows) ==
    /\ Len(rows) >= 1
    /\ \E f \in {"open", "high", "low"} : rows[1][f] = NaN

\* The missing open, high and low of the leading rows are still missing.
LeadingRowsUnfilled ==
    \A i \in LeadingRows(FillInput) : \A f \in {"open", "high", "low"} :
       FillInput[i][f] = NaN => out_panel.rows[i][f] = NaN

\* fillna_panel or _reindex_and_fillna_missing_sessions has returned (the
\* fill was called by itself, not from the re-indexing of the panel).
FillReturned == daily_pc \in {"filled", "rolled"}

\* C23 (as claimed): when the series starts with a gap, the missing open,
\* high and low of the leading rows stay unfilled and the degenerate head
\* row is reported to the caller of the fill.
C23_LeadingGapReported ==
    (FillReturned /\ StartsWithGap(FillInput)) =>
       /\ LeadingRowsUnfilled
       /\ printed # <<>>

\* C23 (amended): when the series starts with a gap, the missing open,
\* high and low of the leading rows stay unfilled; the fill returns only
\* the filled series, on the same dates and with the head row still in
\* it, and reports nothing.
C23_LeadingGapKeptSilently ==
    (FillReturned /\ StartsWithGap(FillInput)) =>
       /\ LeadingRowsUnfilled
       /\ printed = <<>>
       /\ daily_pc = "filled" => out_panel.index = panel.index
       /\ out_panel.rows[1].open = FillInput[1].open
       /\ out_panel.rows[1].high = FillInput[1].high
       /\ out_panel.rows[1].low = FillInput[1].low

\* A panel whose first row has a close and no open, followed by an
\* all-missing row, has been filled: the first open is still missing and
\* the second row is filled from the first close.
C23_Witness ==
    /\ daily_pc = "filled"
    /\ Len(panel.rows) >= 2
    /\ panel.rows[1] = CloseOnly(20)
    /\ panel.rows[2] = NaNBar
    /\ out_panel.rows[1].open = NaN
    /\ out_panel.rows[2].open = 20
    /\ printed = <<>>

\* The timestamps of a frame are exactly the provider's timestamps plus
\* one minute that are minutes of the calendar.
ShiftedAndValid(index) ==
    /\ \A i \in 1..Len(index) :
          /\ index[i] \in all_minutes
          /\ \E j \in 1..Len(file_index) :
                index[i] = file_index[j] + OneMinute
    /\ \A j \in 1..Len(file_index) :
          (file_index[j] + OneMinute) \in all_minutes =>
             \E i \in 1..Len(index) : index[i] = file_index[j] + OneMinute

\* C24: every bar of the frame handed to minute_bar_writer.write_sid (and
\* of the frame it stores) has its provider timestamp plus one minute, in
\* calendar.all_minutes; the bars whose shifted timestamp is outside
\* all_minutes are dropped and no other bar is.
C24_ShiftedAndTrimmed ==
    /\ series_pc = "trimmed" => ShiftedAndValid(prices_index)
    /\ series_pc = "written" =>
          /\ ShiftedAndValid(write_sid_index)
          /\ write_sid_index = prices_index

\* A file with three bars, of which one shifts out of the calendar, has
\* been written: the stored frame has the two others.
C24_Witness ==
    /\ series_pc = "written"
    /\ Len(file_index) = 3
    /\ Len(write_sid_index) = 2
    /\ \E j \in 1..3 : (file_index[j] + OneMinute) \notin all_minutes
    /\ write_sid_index[1] \in all_minutes

\* The rows of the master that are futures, in row order.
FutureRows == FuturesOf(master)

\* C25: two futures with the same root symbol (Symbol) and different
\* ContractMonth get different symbols; the symbol of a future has the
\* characters of its LocalSymbol and of its ContractMonth (with a "-"
\* between them).
C25_DistinctFutureSymbols ==
    assets_pc = "written" =>
       /\ Len(futures) = Len(FutureRows)
       /\ \A i, j \in 1..Len(futures) :
             (/\ FutureRows[i].Symbol = FutureRows[j].Symbol
              /\ FutureRows[i].ContractMonth # FutureRows[j].ContractMonth)
             => futures[i].symbol # futures[j].symbol
       /\ \A i \in 1..Len(futures) :
             /\ futures[i].root_symbol = FutureRows[i].Symbol
             /\ Len(futures[i].symbol) >=
                   Len(FutureRows[i].LocalSymbol)
                   + Len(ToString(FutureRows[i].ContractMonth))

\* Two futures of the root ES, local symbols ES1 and ES, months 2 and 12,
\* have been given the symbols ES1-2 and ES-12.
C25_Witness ==
    /\ assets_pc = "written"
    /\ Len(futures) = 2
    /\ master[1] = [SecType |-> "FUT", Symbol |-> "ES", LocalSymbol |-> "ES1",
                    ContractMonth |-> 2]
    /\ master[2] = [SecType |-> "FUT", Symbol |-> "ES", LocalSymbol |-> "ES",
                    ContractMonth |-> 12]
    /\ futures[1].symbol = "ES1-2"
    /\ futures[2].symbol = "ES-12"

\* The phase of the run at a position of the main thread: Idle until the
\* worker is started, Fetching while _enqueue_prices runs, Draining from
\* the put of the termination signal to the return of join, then Done
\* (_write_bars returned) or Failed (an exception left it).
Phase(pc) ==
    CASE pc \in {"ingest", "write_bars"} -> "Idle"
      [] pc \in {"enqueue", "put"} -> "Fetching"
      [] pc = "join" -> "Draining"
      [] pc \in {"write_assets", "adjustment", "returned"} -> "Done"
      [] pc = "raised" -> "Failed"

PhaseRank(ph) ==
    CASE ph = "Idle" -> 0
      [] ph = "Fetching" -> 1
      [] ph = "Draining" -> 2
      [] ph \in {"Done", "Failed"} -> 3

\* C26 (as claimed): the run goes through Idle, Fetching, Draining in
\* that order and never backwards and ends in Done or Failed, never
\* leaving one for the other; it enters Draining only when the producer
\* has handled its last instrument, and Done or Failed only when the
\* consumer has exited.
C26_PhasesInOrder ==
    [][LET old == Phase(main_pc)
           new == Phase(main_pc')
       IN /\ PhaseRank(new) >= PhaseRank(old)
          /\ PhaseRank(old) = 3 => new = old
          /\ (new = "Draining" /\ old # "Draining") =>
                /\ old = "Fetching"
                /\ idx > Len(securities)
          /\ (PhaseRank(new) = 3 /\ PhaseRank(old) < 3) =>
                worker_pc' = "done"]_vars

\* C27 (as claimed): when the worker thread has ended abnormally and the
\* producer is waiting in put() on the full queue, the producer's next
\* step (the put timing out) raises the worker's exception in the main
\* thread.
C27_WorkerFailureSurfaced ==
    [][(/\ worker_pc = "crashed"
        /\ main_pc = "put"
        /\ Full(ingestion_queue)
        /\ main_pc' # main_pc) =>
          /\ main_pc' = "raised"
          /\ exc' = WorkerException]_vars

\* C28: the queue is the only attribute both threads use while the worker
\* is alive: min_dates and max_dates are used by the main thread only,
\* conids_with_errors by the worker, and by the main thread only once the
\* worker has ended (after the join); no attribute but the queue is used
\* by the worker and, while the worker is alive, by the main thread.
C28_OnlyQueueShared ==
    /\ \A e \in touched :
          /\ e[2] \in {"min_dates", "max_dates"} => e[1] = "main"
          /\ e[2] = "conids_with_errors" => (e[1] = "worker" \/ ~e[3])
    /\ \A m, w \in touched :
          (m[1] = "main" /\ m[3] /\ w[1] = "worker" /\ m[2] = w[2]) =>
             m[2] = "ingestion_queue"

\* The worker recorded a failed conid while the producer was recording
\* dates and using the queue, and the main thread read the failed set and
\* the dates after the join.
C28_Witness ==
    /\ main_pc = "returned"
    /\ <<"worker", "conids_with_errors", TRUE>> \in touched
    /\ <<"worker", "ingestion_queue", TRUE>> \in touched
    /\ <<"main", "ingestion_queue", TRUE>> \in touched
    /\ <<"main", "max_dates", TRUE>> \in touched
    /\ <<"main", "conids_with_errors", FALSE>> \in touched
    /\ <<"main", "max_dates", FALSE>> \in touched

\* C29 (as claimed): the series the producer puts on the queue is already
\* aligned (its timestamps are minutes of the calendar) and the consumer
\* does no alignment: it stores the series as it was queued.
C29_QueuedSeriesCleaned ==
    [][/\ series_pc' = "queued" =>
             \A i \in 1..Len(prices_index') : prices_index'[i] \in all_minutes
       /\ series_pc = "queued" => prices_index' = prices_index]_vars

\* C29 (amended): the producer fetches, shifts the timestamps by one
\* minute and puts the series on the queue without aligning it: the queued
\* series has every bar of the file, in the calendar or not; the consumer
\* drops the bars outside the calendar's minutes before the write, so
\* that the stored series lies in the calendar.
C29_ConsumerAligns ==
    [][/\ series_pc' = "queued" =>
             /\ Len(prices_index') = Len(file_index)
             /\ \A i \in 1..Len(file_index) :
                   prices_index'[i] = file_index[i] + OneMinute
       /\ (series_pc = "queued" /\ series_pc' = "trimmed") =>
             Range(prices_index') = Range(prices_index) \cap all_minutes
       /\ series_pc' = "written" =>
             Range(write_sid_index') \subseteq all_minutes]_vars

\* The first bar of the queued series was outside the calendar; the
\* consumer dropped it and stored the rest.
C29_Witness ==
    /\ series_pc = "written"
    /\ min_date \notin all_minutes
    /\ write_sid_index # <<>>
    /\ write_sid_index[1] > min_date

\* The part of the message about one list of sessions: the first
\* MaxNamed entries by name (none for an empty list) and the number of the
\* others, given after "and" when there are any.
NamesUpTo(named, more, list) ==
    /\ Len(named) = (IF Len(list) > MaxNamed THEN MaxNamed ELSE Len(list))
    /\ \A i \in 1..Len(named) : named[i] = list[i]
    /\ more = (IF Len(list) > MaxNamed THEN Len(list) - MaxNamed ELSE 0)

\* C30 (as claimed): when the dates of the raw panel are not the calendar
\* sessions between its first and last date, exactly one message is
\* printed, naming the first 20 missing sessions and the first 20 extra
\* dates with the number of the others; when the panel is returned
\* unchanged nothing is printed.
C30_OneMessageNamingSessions ==
    daily_pc = "reindexed" =>
       LET missing == SortedSeq(GridSubRange \ Range(panel.index))
           extra == SortedSeq(Range(panel.index) \ GridSubRange)
       IN /\ Range(panel.index) # GridSubRange =>
                /\ Len(printed) = 1
                /\ NamesUpTo(printed[1].missing, printed[1].missing_more,
                             missing)
                /\ NamesUpTo(printed[1].extra, printed[1].extra_more, extra)
          /\ out_panel = panel => printed = <<>>

\* C31 (as stated): whenever make_ingest_func raises BadIngestionArgument, no
\* remote service has been called (database configuration, securities
\* master, history) and nothing has been written to storage.
C31_NoIOBeforeConfigError ==
    mk_pc = "raised" =>
        /\ remote_calls = <<>>
        /\ write_sid_calls = <<>>
        /\ daily_write_calls = <<>>
        /\ asset_db_calls = <<>>
        /\ adjustment_calls = 0

\* C31 (amended): whenever make_ingest_func raises BadIngestionArgument, the
\* only remote call made is the read of the database configuration; the
\* securities master and the history service have not been called, no
\* ingester has been built and nothing has been written to storage.
C31_OnlyConfigReadBeforeConfigError ==
    mk_pc = "raised" =>
        /\ remote_calls = <<"get_db_config">>
        /\ ingester.cls = "none"
        /\ securities = <<>>
        /\ \A c \in Conids : fetched[c] = "none"
        /\ write_sid_calls = <<>>
        /\ daily_write_calls = <<>>
        /\ asset_db_calls = <<>>
        /\ adjustment_calls = 0

\* make_ingest_func raised for missing selection criteria after reading the
\* configuration of a 1-minute database.
C31_Witness ==
    /\ mk_pc = "raised"
    /\ db_config.bar_size = "1 min"
    /\ ~Truthy(mk_args.universes) /\ ~Truthy(mk_args.conids)
    /\ remote_calls # <<>>

\* The conids for which a call with the given outcome is in a writer's log.
CallsWith(log, ok) == {log[i][1] : i \in {j \in DOMAIN log : log[j][2] = ok}}

\* C32: for each dequeued instrument the minute-bar write is called before
\* the daily-bar write; when the minute-bar write raised, no daily-bar write
\* is made for that instrument; when the daily roll-up, alignment or write
\* raised, the instrument's minute bars stay written and the instrument is
\* recorded as failed.
C32_MinuteWriteBeforeDaily ==
    /\ Range(daily_write_calls) \subseteq
           {<<c, ok>> : c \in CallsWith(write_sid_calls, TRUE),
                        ok \in BOOLEAN}
    /\ CallsWith(write_sid_calls, FALSE) \cap
           (CallsWith(daily_write_calls, TRUE) \cup
            CallsWith(daily_write_calls, FALSE)) = {}
    /\ CallsWith(write_sid_calls, FALSE) \subseteq conids_with_errors
    /\ CallsWith(daily_write_calls, FALSE) \subseteq
           CallsWith(write_sid_calls, TRUE) \cap conids_with_errors
    /\ worker_pc = "write_daily" => <<cur, TRUE>> \in Range(write_sid_calls)

\* One instrument's minute write raised and another's daily write raised
\* after its minute bars had been written.
C32_Witness ==
    /\ CallsWith(write_sid_calls, FALSE) # {}
    /\ CallsWith(daily_write_calls, FALSE) # {}
    /\ CallsWith(daily_write_calls, TRUE) # {}

\* The failed set holds only dequeued instruments one of whose writes
\* raised; none whose two writes both returned, none skipped for no data.
FailedSetJustified ==
    /\ conids_with_errors \subseteq
           Range(dequeued) \cap (CallsWith(write_sid_calls, FALSE) \cup
                                 CallsWith(daily_write_calls, FALSE))
    /\ conids_with_errors \cap (CallsWith(write_sid_calls, TRUE) \cap
                                CallsWith(daily_write_calls, TRUE)) = {}
    /\ \A c \in conids_with_errors : fetched[c] = "data"

\* C33: at every point of a minute-bar run conids_with_errors contains only
\* instruments the consumer dequeued and whose minute or daily write
\* raised, never one whose two writes both returned, never one skipped for
\* no data, and an id once added is never removed.
C33_FailedSetOnlyGrowsByFailures ==
    [][/\ conids_with_errors \subseteq conids_with_errors'
       /\ FailedSetJustified']_vars

\* One instrument is in the failed set, another was written in full and a
\* third was skipped for no data.
C33_Witness ==
    /\ Cardinality(conids_with_errors) >= 1
    /\ CallsWith(write_sid_calls, TRUE) \cap
           CallsWith(daily_write_calls, TRUE) # {}
    /\ \E c \in Conids : fetched[c] = "nodata"
    /\ FailedSetJustified

\* _write_bars has returned normally: the join is past and NoData was not
\* raised.
WriteBarsReturned == main_pc \in {"write_assets", "adjustment", "returned"}

\* C34: when a minute-bar run returns normally from _write_bars, every
\* instrument with recorded first/last dates has been passed to both the
\* minute-bar and the daily-bar writer without error or is in the failed
\* set, whatever step of the consumer fails.
C34_NoDatedInstrumentDropped ==
    WriteBarsReturned =>
        max_dates \subseteq
            (CallsWith(write_sid_calls, TRUE) \cap
             CallsWith(daily_write_calls, TRUE)) \cup conids_with_errors

\* The fields of a bar.
BarFields == {"open", "high", "low", "close", "volume"}

\* The values item a carries in rows 1..i of the panel passed in.
ItemValues(a, i) ==
    {items_panel.items[a][j][f] : j \in 1..i, f \in BarFields} \ {NaN}

\* C35: fill changes only missing cells: every value that is non-missing
\* in the input is identical in the output, the timestamps and the
\* instruments are unchanged, and each instrument's missing cells are
\* filled only from that same instrument's values, never from another
\* instrument of the panel.
C35_FillChangesOnlyMissingCells ==
    items_pc = "filled" =>
        /\ items_out.index = items_panel.index
        /\ DOMAIN items_out.items = DOMAIN items_panel.items
        /\ \A a \in PanelItems :
              /\ Len(items_out.items[a]) = Len(items_panel.items[a])
              /\ \A i \in 1..Len(items_panel.index) :
                    /\ \A f \in BarFields :
                          LET before == items_panel.items[a][i][f]
                              after == items_out.items[a][i][f]
                          IN IF before # NaN THEN after = before
                             ELSE after \in ItemValues(a, i) \cup {NaN, 0}
                    /\ items_out.items[a][i] =
                          FilledAsStated(items_panel.items[a], i)

\* The second item has no bar on a date on which the first has one, after
\* a date with bars of both: its row is filled with its own last close.
C35_Witness ==
    /\ items_pc = "filled"
    /\ Len(items_panel.index) >= 2
    /\ items_panel.items["symbol1"][2] = FullBar(10)
    /\ items_panel.items["symbol2"][1] = FullBar(20)
    /\ items_panel.items["symbol2"][2] = NaNBar
    /\ items_out.items["symbol2"][2] = FlatBar(20)

\* The database of a set_realtime_db call has one of the faults the
\* function checks for: bars that are not 1-minute bars, a mapping with an
\* unexpected Zipline field, or one with a field the database lacks.
HasListedFault(call) ==
    /\ call.config.found
    /\ \/ call.config.bar_size # "1 min"
       \/ Keys(call.fields) \ ExpectedZiplineFields # {}
       \/ Values(call.fields) \ call.config.fields # {}

\* C36: set_realtime_db stores the code and the mapping before it
\* validates them: when the call raises, the rejected code and mapping are
\* bound, whatever was bound before, and a following get_code() returns
\* the code rejected for its bar size or its mapping.
C36_RejectedBindingStays ==
    /\ (rt_call.op = "set_realtime_db" /\ rt_call.outcome # "returned") =>
          /\ CODE = <<rt_call.code>>
          /\ FIELDS = rt_call.fields
    /\ (/\ rt_set # <<>>
        /\ rt_set[1].outcome # "returned"
        /\ HasListedFault(rt_set[1])) =>
          /\ CODE = <<rt_set[1].code>>
          /\ FIELDS = rt_set[1].fields
          /\ rt_call.op = "get_code" =>
                /\ rt_call.outcome = "returned"
                /\ rt_call.value = rt_set[1].code

\* db1 was bound with a mapping; set_realtime_db("db2") then raised
\* because db2 has 5-minute bars, and the get_code() that followed
\* returned "db2".
C36_Witness ==
    /\ rt_set # <<>>
    /\ rt_set[1].before = <<<<"db1">>, {<<"close", "LastPriceClose">>}>>
    /\ rt_set[1].code = "db2"
    /\ rt_set[1].fields = {}
    /\ rt_set[1].config.bar_size = "5 mins"
    /\ rt_set[1].outcome # "returned"
    /\ rt_call.op = "get_code"
    /\ rt_call.outcome = "returned"
    /\ rt_call.value = "db2"
    /\ FIELDS = {}

\* The step is a call of one of the getters.
GetterStep ==
    /\ rt_count' = rt_count + 1
    /\ rt_call'.op \in {"get_code", "get_db_field"}

\* The mapping of the most recent set_realtime_db call ({} before any).
LastMapping == IF rt_set = <<>> THEN {} ELSE rt_set[1].fields

\* get_db_field(f) returns the mapped field when f is a key of the most
\* recently set mapping and raises BadArgument otherwise.
DbFieldFollowsLastMapping ==
    rt_call'.op = "get_db_field" =>
        IF rt_call'.field \in Keys(LastMapping)
        THEN /\ rt_call'.outcome = "returned"
             /\ <<rt_call'.field, rt_call'.value>> \in LastMapping
        ELSE rt_call'.outcome = "BadArgument"

\* C37 (as stated): in any sequence of calls, get_code() raises BadArgument
\* as long as no non-empty code has been set and otherwise returns the code
\* of the most recent set_realtime_db call; get_db_field(f) returns the
\* mapped field when f is a key of the most recently set mapping and
\* raises BadArgument otherwise; neither getter changes the binding.
C37_CodeOfLastSetOnceNamed ==
    [][GetterStep =>
          /\ UNCHANGED <<CODE, FIELDS>>
          /\ DbFieldFollowsLastMapping
          /\ rt_call'.op = "get_code" =>
                IF rt_set = <<>> \/ ~rt_set[1].named
                THEN rt_call'.outcome = "BadArgument"
                ELSE /\ rt_call'.outcome = "returned"
                     /\ rt_call'.value = rt_set[1].code]_vars

\* C37 (amended): in any sequence of calls, get_code() raises BadArgument
\* when no set_realtime_db call has been made or the code of the most
\* recent one is empty, and otherwise returns the code of the most recent
\* set_realtime_db call; get_db_field(f) returns the mapped field when f is
\* a key of the most recently set mapping and raises BadArgument
\* otherwise; neither getter changes the binding.
C37_CodeOfLastSetUnlessEmpty ==
    [][GetterStep =>
          /\ UNCHANGED <<CODE, FIELDS>>
          /\ DbFieldFollowsLastMapping
          /\ rt_call'.op = "get_code" =>
                IF rt_set = <<>> \/ rt_set[1].code = ""
                THEN rt_call'.outcome = "BadArgument"
                ELSE /\ rt_call'.outcome = "returned"
                     /\ rt_call'.value = rt_set[1].code]_vars

\* A database code was set, then the empty code, and get_code() raised
\* BadArgument.
C37_Witness ==
    /\ rt_set # <<>>
    /\ rt_set[1].code = ""
    /\ rt_set[1].named
    /\ rt_set[1].before[1] = <<"db1">>
    /\ rt_call.op = "get_code"
    /\ rt_call.outcome = "BadArgument"
    /\ CODE = <<"">>

====
